---- MODULE Spec2Model ----
(***************************************************************************)
(* Learning-to-rank toolkit: the single-hidden-layer neural network        *)
(* (ml/neural_net.cpp), its gradient accumulator, and the driver           *)
(* (ltr_main.cpp).                                                         *)
(*                                                                         *)
(* Numbers of type double are modelled in fixed point: the integer v       *)
(* stands for the real v / SCALE.  Products and quotients round toward     *)
(* zero, sums and differences are exact.                                   *)
(***************************************************************************)
EXTENDS Integers, Sequences, FiniteSets, TLC

VARIABLES
    \* NeuralNetwork (the model object)
    w1, wy, outputs, learning_rate,
    \* NeuralNetworkGradient (the accumulator object)
    g_outputs, gradients1, gradientsy,
    \* call log: the last three operations performed on the two objects, the
    \* arguments of the last update() and the number of update() calls since
    \* the accumulator was last zeroed
    ops, last_features, last_y, last_mult, nupdates,
    \* the last score() call since the last update_parent(): arguments and result
    score_features, score_value, score_same,
    \* worker threads calling update() on one shared accumulator
    wpc, wargs, wout, widx, wtmp,
    \* main(): program counter, options, locals, process exit status
    pc, opt, nshards, lr_obj, model, eval, algorithm, phase,
    exit_status, data_error, stage, iter, runs

nnVars   == <<w1, wy, outputs, learning_rate>>
accVars  == <<g_outputs, gradients1, gradientsy>>
logVars  == <<ops, last_features, last_y, last_mult, nupdates>>
memoVars == <<score_features, score_value, score_same>>
wrkVars  == <<wpc, wargs, wout, widx, wtmp>>
mainVars == <<pc, opt, nshards, lr_obj, model, eval, algorithm, phase,
              exit_status, data_error, stage, iter, runs>>
vars     == <<nnVars, accVars, logVars, memoVars, wrkVars, mainVars>>

(***************************************************************************)
(* Bounds of the model.                                                    *)
(***************************************************************************)
\* number of features of a document (the dimensions argument)
Dimensions == 3
\* number of hidden neurons (the hidden_neurons argument)
HiddenNeurons == 2
\* update() calls accepted between two zeroings of the accumulator
MaxUpdates == 2
\* value of the niters option: iterations of one engine.run
NIters == 2

\* pairs of values that random weights drawn from [0.1, 1.0] take in the model
WeightPairs == {<<100, 1000>>, <<1000, 400>>}
\* values of a feature
FeatureValues == {0, 1000}
\* values of the target y passed to update()
YValues == {500, 800}
\* values of the multiplier passed to update()
MultValues == {-1000, 1000}
\* values of the learning rate
LearningRates == {100, 500}

(***************************************************************************)
(* double arithmetic                                                       *)
(***************************************************************************)
\* resolution of the fixed-point representation of a double
SCALE == 1000

\* the integer quotient n / d rounded toward zero, d > 0
Quotient(n, d) == IF n >= 0 THEN n \div d ELSE -((-n) \div d)

\* a * b on doubles
Mul(a, b) == Quotient(a * b, SCALE)

\* a / b on doubles, b # 0
Div(a, b) == IF b > 0 THEN Quotient(a * SCALE, b) ELSE Quotient(-(a * SCALE), -b)

\* the power series of exp(z) for z >= 0, from the term of index n on
RECURSIVE ExpSeries(_, _, _)
ExpSeries(z, n, term) ==
    IF term = 0 THEN 0
    ELSE term + ExpSeries(z, n + 1, (term * z) \div (n * SCALE))

\* exp(z) of <cmath>
Exp(z) == IF z >= 0 THEN ExpSeries(z, 1, SCALE)
          ELSE Div(SCALE, ExpSeries(-z, 1, SCALE))

\* sum of the first n entries of the sequence s, accumulated left to right
RECURSIVE SumTo(_, _)
SumTo(s, n) == IF n = 0 THEN 0 ELSE SumTo(s, n - 1) + s[n]

Zeros(n) == [i \in 1..n |-> 0]

(***************************************************************************)
(* NeuralNetwork                                                           *)
(***************************************************************************)
\* sharpness of the logistic function, set by the constructor
K == 1

\* NeuralNetwork::sigma
sigma(x) == Div(SCALE, SCALE + Exp(-(K * x)))

\* the vector score_inner computes in its parameter outputs1 (lines 16-24)
HiddenOutputs(features, n, w1_) ==
    [h \in 1..n |->
        sigma(SumTo([x \in 1..Len(features) |-> Mul(features[x], w1_[x][h])],
                    Len(features)))]

\* NeuralNetwork::score_inner: the value returned
score_inner(features, outputs1, w1_, wy_) ==
    LET o == HiddenOutputs(features, Len(outputs1), w1_)
    IN  sigma(SumTo([h \in 1..Len(outputs1) |-> Mul(o[h], wy_[h])],
                    Len(outputs1)))

\* what a by-reference parameter would leave in the caller's vector
score_inner_arg_byref(features, outputs1, w1_, wy_) ==
    HiddenOutputs(features, Len(outputs1), w1_)

\* NeuralNetwork::score_inner: the caller's vector after the call.  The
\* parameter is std::vector<double> outputs1, passed by value: the function
\* fills its own copy and the caller's vector is left as it was.
score_inner_arg(features, outputs1, w1_, wy_) == outputs1

\* the sequences of values the random engine can deliver to initialize_weights
DrawSequences ==
    {[k \in 1..(Dimensions * HiddenNeurons + HiddenNeurons) |->
         IF k % 2 = 1 THEN p[1] ELSE p[2]] : p \in WeightPairs}

\* NeuralNetwork::initialize_weights: w1 is filled row by row, then wy
initialize_weights(dimensions, hidden_neurons, draws) ==
    [w1 |-> [i \in 1..dimensions |->
                [j \in 1..hidden_neurons |-> draws[(i - 1) * hidden_neurons + j]]],
     wy |-> [i \in 1..hidden_neurons |-> draws[dimensions * hidden_neurons + i]]]

\* NeuralNetwork::NeuralNetwork
NeuralNetwork(dimensions, hidden_neurons, rate, draws) ==
    LET w == initialize_weights(dimensions, hidden_neurons, draws)
    IN  [w1 |-> w.w1, wy |-> w.wy, outputs |-> Zeros(hidden_neurons),
         learning_rate |-> rate]

\* the feature vectors of the model
FeatureSet ==
    {[x \in 1..Dimensions |-> IF x % 2 = 1 THEN a ELSE SCALE - a] :
        a \in FeatureValues}

(***************************************************************************)
(* NeuralNetworkGradient                                                   *)
(***************************************************************************)
\* NeuralNetworkGradient::reset on the pair of gradient containers
reset(g1, gy) ==
    [gradients1 |-> [i \in 1..Len(g1) |-> [j \in 1..Len(g1[i]) |-> 0]],
     gradientsy |-> [i \in 1..Len(gy) |-> 0]]

\* a constructor that sizes the output-layer gradients by the rows of w1
NeuralNetworkGradient_rows(p_w1, p_wy, p_outputs) ==
    LET z == reset([i \in 1..Len(p_w1) |-> Zeros(Len(p_w1[i]))],
                   Zeros(Len(p_w1)))
    IN  [outputs |-> Zeros(Len(p_outputs)),
         gradients1 |-> z.gradients1, gradientsy |-> z.gradientsy]

\* NeuralNetworkGradient::NeuralNetworkGradient: resize() value-initializes
\* the new elements, then reset() is called
NeuralNetworkGradient(p_w1, p_wy, p_outputs) ==
    LET z == reset([i \in 1..Len(p_w1) |-> Zeros(Len(p_w1[i]))],
                   Zeros(Len(p_wy)))
    IN  [outputs |-> Zeros(Len(p_outputs)),
         gradients1 |-> z.gradients1, gradientsy |-> z.gradientsy]

\* the term subtracted from gradientsy[j] (line 97)
TermY(rate, mult, deltay, out, j) ==
    Mul(Mul(Mul(rate, mult), deltay), out[j])

\* the term subtracted from gradients1[i][h] (lines 102-105)
Term1H(rate, mult, deltay, p_wy, deltah, features, i, h) ==
    Mul(Mul(Mul(Mul(Mul(rate, mult), deltay), p_wy[h]), deltah), features[i])

\* the same with deltah taken from the outputs vector (line 102)
Term1(rate, mult, deltay, p_wy, out, features, i, h) ==
    Term1H(rate, mult, deltay, p_wy, Mul(out[h], SCALE - out[h]), features, i, h)

\* NeuralNetworkGradient::update on an accumulator acc = [outputs,
\* gradients1, gradientsy] of a parent with weights p_w1, p_wy
update(acc, features, y, mult, p_w1, p_wy, rate) ==
    LET out    == score_inner_arg(features, acc.outputs, p_w1, p_wy)
        deltay == Mul(y, SCALE - y)
    IN  [outputs |-> out,
         gradientsy |->
            [j \in 1..Len(acc.gradientsy) |->
                IF j <= Len(p_wy)
                THEN acc.gradientsy[j] - TermY(rate, mult, deltay, out, j)
                ELSE acc.gradientsy[j]],
         gradients1 |->
            [i \in 1..Len(acc.gradients1) |->
                [h \in 1..Len(acc.gradients1[i]) |->
                    IF h <= Len(p_wy)
                    THEN acc.gradients1[i][h]
                         - Term1(rate, mult, deltay, p_wy, out, features, i, h)
                    ELSE acc.gradients1[i][h]]]]

\* NeuralNetworkGradient::update_parent: the parent's weights after the call
update_parent(g1, gy, p_w1, p_wy) ==
    [w1 |-> [i \in 1..Len(p_w1) |->
                [j \in 1..Len(p_w1[i]) |->
                    IF i <= Len(g1) /\ j <= Len(g1[i])
                    THEN p_w1[i][j] - g1[i][j] ELSE p_w1[i][j]]],
     wy |-> [i \in 1..Len(p_wy) |->
                IF i <= Len(gy) THEN p_wy[i] - gy[i] ELSE p_wy[i]]]

Accumulator == [outputs |-> g_outputs, gradients1 |-> gradients1,
                gradientsy |-> gradientsy]

Record(op) == ops' = <<ops[2], ops[3], op>>
LastOp == ops[3]

(***************************************************************************)
(* The two objects under any sequence of calls.                            *)
(***************************************************************************)
NoWorkers == /\ wpc = <<>> /\ wargs = <<>> /\ wout = <<>>
             /\ widx = <<>> /\ wtmp = <<>>

NoMain == /\ pc = "none" /\ opt = <<>> /\ nshards = <<>>
          /\ lr_obj = <<>> /\ model = <<>> /\ eval = <<>> /\ algorithm = <<>>
          /\ phase = "none" /\ exit_status = -1 /\ data_error = "none"
          /\ stage = "idle" /\ iter = 0 /\ runs = <<>>

NoAccumulator == /\ g_outputs = <<>> /\ gradients1 = <<>> /\ gradientsy = <<>>

NoCalls == /\ last_features = <<>> /\ last_y = 0 /\ last_mult = 0
           /\ nupdates = 0
           /\ score_features = <<>> /\ score_value = 0 /\ score_same = "none"

\* a model object as main or a test constructs it
NNInit ==
    /\ \E draws \in DrawSequences, rate \in LearningRates :
          LET nn == NeuralNetwork(Dimensions, HiddenNeurons, rate, draws)
          IN  /\ w1 = nn.w1 /\ wy = nn.wy /\ outputs = nn.outputs
              /\ learning_rate = nn.learning_rate
    /\ NoAccumulator /\ NoCalls /\ NoWorkers /\ NoMain
    /\ ops = <<"none", "none", "NeuralNetwork">>

HasAccumulator == gradients1 # <<>>

\* new NeuralNetworkGradient(parent)
DoNewGradient ==
    LET g == NeuralNetworkGradient(w1, wy, outputs)
    IN  /\ g_outputs' = g.outputs
        /\ gradients1' = g.gradients1
        /\ gradientsy' = g.gradientsy
        /\ nupdates' = 0
        /\ Record("NeuralNetworkGradient")
        /\ UNCHANGED <<nnVars, last_features, last_y, last_mult, memoVars>>

\* NeuralNetwork::score(features)
DoScore(features) ==
    LET v == score_inner(features, outputs, w1, wy)
    IN  /\ outputs' = score_inner_arg(features, outputs, w1, wy)
        /\ score_value' = v
        /\ score_features' = features
        /\ score_same' = IF score_features # features THEN "none"
                         ELSE IF score_value = v THEN "same" ELSE "differs"
        /\ Record("score")
        /\ UNCHANGED <<w1, wy, learning_rate, accVars,
                       last_features, last_y, last_mult, nupdates>>

\* NeuralNetworkGradient::update(features, y, mult)
DoUpdate(features, y, mult) ==
    LET g == update(Accumulator, features, y, mult, w1, wy, learning_rate)
    IN  /\ HasAccumulator
        /\ nupdates < MaxUpdates
        /\ g_outputs' = g.outputs
        /\ gradients1' = g.gradients1
        /\ gradientsy' = g.gradientsy
        /\ last_features' = features /\ last_y' = y /\ last_mult' = mult
        /\ nupdates' = nupdates + 1
        /\ Record("update")
        /\ UNCHANGED <<nnVars, memoVars>>

\* NeuralNetworkGradient::reset()
DoReset ==
    LET g == reset(gradients1, gradientsy)
    IN  /\ HasAccumulator
        /\ gradients1' = g.gradients1
        /\ gradientsy' = g.gradientsy
        /\ nupdates' = 0
        /\ Record("reset")
        /\ UNCHANGED <<nnVars, g_outputs, last_features, last_y, last_mult,
                       memoVars>>

\* NeuralNetworkGradient::update_parent()
DoUpdateParent ==
    LET w == update_parent(gradients1, gradientsy, w1, wy)
    IN  /\ HasAccumulator
        /\ w1' = w.w1
        /\ wy' = w.wy
        /\ score_features' = <<>> /\ score_value' = 0 /\ score_same' = "none"
        /\ Record("update_parent")
        /\ UNCHANGED <<outputs, learning_rate, accVars,
                       last_features, last_y, last_mult, nupdates>>

NNNewGradient == DoNewGradient /\ UNCHANGED <<wrkVars, mainVars>>
NNScore == \E f \in FeatureSet : DoScore(f) /\ UNCHANGED <<wrkVars, mainVars>>
NNUpdate ==
    \E f \in FeatureSet, y \in YValues, m \in MultValues :
        DoUpdate(f, y, m) /\ UNCHANGED <<wrkVars, mainVars>>
NNReset == DoReset /\ UNCHANGED <<wrkVars, mainVars>>
NNUpdateParent == DoUpdateParent /\ UNCHANGED <<wrkVars, mainVars>>

NNNext == NNNewGradient \/ NNScore \/ NNUpdate \/ NNReset \/ NNUpdateParent

SpecNN == NNInit /\ [][NNNext]_vars

(***************************************************************************)
(* Worker threads of one engine iteration, each inside one call of         *)
(* update() on the same accumulator.  The statement  g[k] -= t  is a load  *)
(* of g[k] followed by a store; nothing in update() orders the loads and   *)
(* stores of different threads.                                            *)
(***************************************************************************)
Workers == {"t1", "t2"}

UpdateArgs == [features : FeatureSet, y : YValues, mult : MultValues]

ConcInit ==
    /\ \E draws \in DrawSequences, rate \in LearningRates :
          LET nn == NeuralNetwork(Dimensions, HiddenNeurons, rate, draws)
              g  == NeuralNetworkGradient(nn.w1, nn.wy, nn.outputs)
          IN  /\ w1 = nn.w1 /\ wy = nn.wy /\ outputs = nn.outputs
              /\ learning_rate = nn.learning_rate
              /\ g_outputs = g.outputs
              /\ gradients1 = g.gradients1
              /\ gradientsy = g.gradientsy
    /\ NoCalls /\ NoMain
    /\ ops = <<"none", "NeuralNetwork", "NeuralNetworkGradient">>
    /\ wargs \in [Workers -> UpdateArgs]
    /\ wpc = [t \in Workers |-> "call"]
    /\ wout = [t \in Workers |-> 0]
    /\ widx = [t \in Workers |-> <<1, 1>>]
    /\ wtmp = [t \in Workers |-> 0]

WDeltaY(t) == Mul(wargs[t].y, SCALE - wargs[t].y)

\* line 91: parent.score_inner(features, outputs)
WCall(t) ==
    /\ wpc[t] = "call"
    /\ g_outputs' = score_inner_arg(wargs[t].features, g_outputs, w1, wy)
    /\ wpc' = [wpc EXCEPT ![t] = IF 1 <= Len(wy) THEN "y_load" ELSE "done"]
    /\ widx' = [widx EXCEPT ![t] = <<1, 1>>]
    /\ UNCHANGED <<nnVars, gradients1, gradientsy, logVars, memoVars,
                   wargs, wout, wtmp, mainVars>>

\* line 97, the load: gradientsy[j] - learning_rate * mult * deltay * outputs[j]
WLoadY(t) ==
    LET j == widx[t][1]
    IN  /\ wpc[t] = "y_load"
        /\ wtmp' = [wtmp EXCEPT ![t] =
                      gradientsy[j]
                      - TermY(learning_rate, wargs[t].mult, WDeltaY(t),
                              g_outputs, j)]
        /\ wpc' = [wpc EXCEPT ![t] = "y_store"]
        /\ UNCHANGED <<nnVars, accVars, logVars, memoVars,
                       wargs, wout, widx, mainVars>>

\* line 97, the store; then the next j, or line 102 for h = 0
WStoreY(t) ==
    LET j == widx[t][1]
    IN  /\ wpc[t] = "y_store"
        /\ gradientsy' = [gradientsy EXCEPT ![j] = wtmp[t]]
        /\ IF j + 1 <= Len(wy)
           THEN /\ widx' = [widx EXCEPT ![t] = <<j + 1, 1>>]
                /\ wpc' = [wpc EXCEPT ![t] = "y_load"]
           ELSE /\ widx' = [widx EXCEPT ![t] = <<1, 1>>]
                /\ wpc' = [wpc EXCEPT ![t] = "h_head"]
        /\ UNCHANGED <<nnVars, g_outputs, gradients1, logVars, memoVars,
                       wargs, wout, wtmp, mainVars>>

\* line 102: deltah = outputs[h] * (1 - outputs[h])
WDeltaH(t) ==
    LET h == widx[t][1]
    IN  /\ wpc[t] = "h_head"
        /\ wout' = [wout EXCEPT ![t] = Mul(g_outputs[h], SCALE - g_outputs[h])]
        /\ wpc' = [wpc EXCEPT ![t] =
                     IF 1 <= Len(gradients1) THEN "i_load" ELSE "h_next"]
        /\ UNCHANGED <<nnVars, accVars, logVars, memoVars,
                       wargs, widx, wtmp, mainVars>>

\* lines 104-105, the load
WLoad1(t) ==
    LET h == widx[t][1]
        i == widx[t][2]
    IN  /\ wpc[t] = "i_load"
        /\ wtmp' = [wtmp EXCEPT ![t] =
                      gradients1[i][h]
                      - Term1H(learning_rate, wargs[t].mult, WDeltaY(t), wy,
                               wout[t], wargs[t].features, i, h)]
        /\ wpc' = [wpc EXCEPT ![t] = "i_store"]
        /\ UNCHANGED <<nnVars, accVars, logVars, memoVars,
                       wargs, wout, widx, mainVars>>

\* lines 104-105, the store; then the next i, the next h, or the return
WStore1(t) ==
    LET h == widx[t][1]
        i == widx[t][2]
    IN  /\ wpc[t] = "i_store"
        /\ gradients1' = [gradients1 EXCEPT ![i][h] = wtmp[t]]
        /\ IF i + 1 <= Len(gradients1)
           THEN /\ widx' = [widx EXCEPT ![t] = <<h, i + 1>>]
                /\ wpc' = [wpc EXCEPT ![t] = "i_load"]
           ELSE IF h + 1 <= Len(wy)
           THEN /\ widx' = [widx EXCEPT ![t] = <<h + 1, 1>>]
                /\ wpc' = [wpc EXCEPT ![t] = "h_head"]
           ELSE /\ widx' = [widx EXCEPT ![t] = <<1, 1>>]
                /\ wpc' = [wpc EXCEPT ![t] = "done"]
        /\ UNCHANGED <<nnVars, g_outputs, gradientsy, logVars, memoVars,
                       wargs, wout, wtmp, mainVars>>

ConcCall == \E t \in Workers : WCall(t)
ConcLoadY == \E t \in Workers : WLoadY(t)
ConcStoreY == \E t \in Workers : WStoreY(t)
ConcDeltaH == \E t \in Workers : WDeltaH(t)
ConcLoad1 == \E t \in Workers : WLoad1(t)
ConcStore1 == \E t \in Workers : WStore1(t)

ConcNext == \/ ConcCall \/ ConcLoadY \/ ConcStoreY
            \/ ConcDeltaH \/ ConcLoad1 \/ ConcStore1

SpecConc == ConcInit /\ [][ConcNext]_vars

(***************************************************************************)
(* ltr_main.cpp                                                            *)
(***************************************************************************)
\* values of the options
TrainFiles == {"train.txt", "missing.txt"}
OtherFiles == {"", "data.txt", "missing.txt"}
Readers == {"csv", "yahoo", "svmlight"}
Metrics == {"ndcg", "map"}
Algorithms == {"ranknet_old", "lambdarank", "lambdamart"}
ModelNames == {<<"l", "i", "n", "r", "e", "g">>, <<"s", "v", "m">>,
               <<"n", "n">>, <<"n", "n", ":", "0">>, <<"n", "n", ":", "2">>,
               <<"n", "n", ":", "-", "1">>}

\* the shards read_csv, read_letor and read_yahoo_ltr make of a file: none of
\* a file that cannot be read
ReadFile(file_name) == IF file_name \in {"", "missing.txt"} THEN 0 ELSE 1

\* read_data: the number of shards
read_data(file_name, file_type) ==
    IF file_type = "csv" THEN ReadFile(file_name)
    ELSE IF file_type = "letor" THEN ReadFile(file_name)
    ELSE IF file_type = "yahoo" THEN ReadFile(file_name)
    ELSE 0

NULL == [kind |-> "NULL", neurons |-> 0, lr |-> 0]

\* get_algorithm
get_algorithm(name, model_, eval_) ==
    IF name = "ranknet_old" THEN [kind |-> "RankNet", model |-> model_, eval |-> eval_]
    ELSE IF name = "ranknet" THEN [kind |-> "RankNetLambda", model |-> model_, eval |-> eval_]
    ELSE IF name = "lambdarank" THEN [kind |-> "LambdaRank", model |-> model_, eval |-> eval_]
    ELSE [kind |-> "NULL", model |-> model_, eval |-> eval_]

\* get_evaluation_measure
get_evaluation_measure(name) ==
    IF name = "ndcg" THEN "NdcgEvaluator" ELSE "NULL"

Digits == {"0", "1", "2", "3", "4", "5", "6", "7", "8", "9"}
DigitValue(c) ==
    CASE c = "0" -> 0 [] c = "1" -> 1 [] c = "2" -> 2 [] c = "3" -> 3
      [] c = "4" -> 4 [] c = "5" -> 5 [] c = "6" -> 6 [] c = "7" -> 7
      [] c = "8" -> 8 [] c = "9" -> 9

\* the value of the longest prefix of digits of s, read after acc
RECURSIVE AtoiDigits(_, _)
AtoiDigits(s, acc) ==
    IF s = <<>> \/ Head(s) \notin Digits THEN acc
    ELSE AtoiDigits(Tail(s), 10 * acc + DigitValue(Head(s)))

\* atoi of <cstdlib>: blanks, an optional sign, digits; 0 if there are none
RECURSIVE atoi(_)
atoi(s) ==
    IF s = <<>> THEN 0
    ELSE IF Head(s) = " " THEN atoi(Tail(s))
    ELSE IF Head(s) = "-" THEN -AtoiDigits(Tail(s), 0)
    ELSE IF Head(s) = "+" THEN AtoiDigits(Tail(s), 0)
    ELSE AtoiDigits(s, 0)

\* std::string::substr(pos)
substr(s, pos) == SubSeq(s, pos + 1, Len(s))

\* the learning rate a NeuralNetwork is given when its constructor is called
\* with two arguments (the default argument of the declaration)
NN_DEFAULT_LEARNING_RATE == 100

\* create_learning_rate_function: the option string names the rate
create_learning_rate_function(learning_rate_) == [rate |-> learning_rate_]

\* a get_ml_model that accepts any width that is not negative
get_ml_model_nonneg(name, dimensions, lr) ==
    IF name = <<"l", "i", "n", "r", "e", "g">>
    THEN [kind |-> "LinearRegression", neurons |-> 0, lr |-> lr.rate]
    ELSE IF Len(name) >= 2 /\ SubSeq(name, 1, 2) = <<"n", "n">>
              /\ Len(name) > 3 /\ atoi(substr(name, 3)) >= 0
    THEN [kind |-> "NeuralNetwork", neurons |-> atoi(substr(name, 3)),
          lr |-> NN_DEFAULT_LEARNING_RATE]
    ELSE NULL

\* get_ml_model: lr reaches LinearRegression only; NeuralNetwork is
\* constructed from dimensions and neurons alone
get_ml_model(name, dimensions, lr) ==
    IF name = <<"l", "i", "n", "r", "e", "g">>
    THEN [kind |-> "LinearRegression", neurons |-> 0, lr |-> lr.rate]
    ELSE IF Len(name) >= 2 /\ SubSeq(name, 1, 2) = <<"n", "n">>
              /\ Len(name) > 3 /\ atoi(substr(name, 3)) > 0
    THEN [kind |-> "NeuralNetwork", neurons |-> atoi(substr(name, 3)),
          lr |-> NN_DEFAULT_LEARNING_RATE]
    ELSE NULL

\* logstream(LOG_FATAL) << ... << std::endl ends the process
LogFatalHalts == TRUE
\* the exit status of a process ended by LOG_FATAL
LogFatalStatus == 134
\* the phase of a new LtrAlgorithm
InitialPhase == "TRAINING"
\* an algorithm step applies the accumulator only in the training phase
ApplyAllowed == phase = "TRAINING"

\* a driver that leaves the test pass in the training phase
MainTestPhase_train == "TRAINING"
\* line 188: algorithm->set_phase(TESTING)
MainTestPhase == "TESTING"
\* a driver that leaves the validation pass in the training phase
MainEvalPhase_train == "TRAINING"
\* line 173: algorithm->set_phase(VALIDATION)
MainEvalPhase == "VALIDATION"

Options == [train_data : TrainFiles, eval_data : OtherFiles,
            test_data : OtherFiles, reader : Readers, error : Metrics,
            mlmodel : ModelNames, algorithm : Algorithms,
            learning_rate : LearningRates, niters : {NIters}]

\* lines 108-125: the options are read
MainInit ==
    /\ opt \in Options
    /\ pc = "read_train"
    /\ nshards = [train |-> -1, eval |-> -1, test |-> -1]
    /\ lr_obj = [rate |-> 0]
    /\ model = [kind |-> "unset", neurons |-> 0, lr |-> 0]
    /\ eval = "unset"
    /\ algorithm = [kind |-> "unset", model |-> model, eval |-> eval]
    /\ phase = "none"
    /\ exit_status = -1 /\ data_error = "none"
    /\ stage = "idle" /\ iter = 0 /\ runs = <<>>
    /\ w1 = <<>> /\ wy = <<>> /\ outputs = <<>> /\ learning_rate = 0
    /\ NoAccumulator /\ NoCalls /\ NoWorkers
    /\ ops = <<"none", "none", "none">>

Quiet == UNCHANGED <<nnVars, accVars, logVars, memoVars, wrkVars>>

\* logstream(LOG_FATAL) after a read_data that returned 0
DataFatal(which, next) ==
    /\ data_error' = which
    /\ IF LogFatalHalts
       THEN pc' = "halted" /\ exit_status' = LogFatalStatus
       ELSE pc' = next /\ UNCHANGED exit_status

\* logstream(LOG_FATAL) followed by exit(1)
ConfigFatal ==
    /\ pc' = "exited"
    /\ exit_status' = IF LogFatalHalts THEN LogFatalStatus ELSE 1

\* lines 127-132
MainReadTrain ==
    /\ pc = "read_train"
    /\ LET n == read_data(opt.train_data, opt.reader)
       IN  /\ nshards' = [nshards EXCEPT !.train = n]
           /\ IF n = 0 THEN DataFatal("train", "get_model")
              ELSE pc' = "get_model" /\ UNCHANGED <<exit_status, data_error>>
    /\ UNCHANGED <<opt, lr_obj, model, eval, algorithm, phase, stage, iter, runs>>
    /\ Quiet

\* lines 134-142
MainGetModel ==
    /\ pc = "get_model"
    /\ LET lr == create_learning_rate_function(opt.learning_rate)
           m  == get_ml_model(opt.mlmodel, Dimensions, lr)
       IN  /\ lr_obj' = lr
           /\ model' = m
           /\ IF m = NULL
              THEN ConfigFatal /\ UNCHANGED <<nnVars, ops>>
              ELSE /\ pc' = "get_eval" /\ UNCHANGED exit_status
                   /\ IF m.kind = "NeuralNetwork"
                      THEN \E draws \in DrawSequences :
                             LET nn == NeuralNetwork(Dimensions, m.neurons,
                                                     m.lr, draws)
                             IN  /\ w1' = nn.w1 /\ wy' = nn.wy
                                 /\ outputs' = nn.outputs
                                 /\ learning_rate' = nn.learning_rate
                                 /\ Record("NeuralNetwork")
                      ELSE UNCHANGED <<nnVars, ops>>
    /\ UNCHANGED <<opt, nshards, eval, algorithm, phase, data_error, stage,
                   iter, runs>>
    /\ UNCHANGED <<accVars, last_features, last_y, last_mult, nupdates,
                   memoVars, wrkVars>>

\* lines 143-149
MainGetEval ==
    /\ pc = "get_eval"
    /\ eval' = get_evaluation_measure(opt.error)
    /\ IF eval' = "NULL" THEN ConfigFatal
       ELSE pc' = "get_algorithm" /\ UNCHANGED exit_status
    /\ UNCHANGED <<opt, nshards, lr_obj, model, algorithm, phase, data_error,
                   stage, iter, runs>>
    /\ Quiet

\* lines 150-157
MainGetAlgorithm ==
    /\ pc = "get_algorithm"
    /\ algorithm' = get_algorithm(opt.algorithm, model, eval)
    /\ IF algorithm'.kind = "NULL"
       THEN ConfigFatal /\ UNCHANGED phase
       ELSE pc' = "train_run" /\ phase' = InitialPhase /\ UNCHANGED exit_status
    /\ UNCHANGED <<opt, nshards, lr_obj, model, eval, data_error, stage, iter,
                   runs>>
    /\ Quiet

\* the passes of engine.run
Running == {"train_running", "eval_running", "test_running"}

IsNN == model.kind = "NeuralNetwork"

\* a pass starts: the run is entered with the algorithm object, which makes
\* the accumulator of its model
StartRun(data, running) ==
    /\ pc' = running
    /\ stage' = "visit" /\ iter' = 0
    /\ runs' = Append(runs, [data |-> data, algorithm |-> algorithm,
                             done |-> FALSE])
    /\ IF IsNN THEN DoNewGradient
       ELSE /\ Record("new_gradient") /\ nupdates' = 0
            /\ UNCHANGED <<nnVars, accVars, last_features, last_y, last_mult,
                           memoVars>>
    /\ UNCHANGED <<opt, nshards, lr_obj, model, eval, algorithm, phase,
                   exit_status, data_error, wrkVars>>

\* lines 159-163: engine.run on the training data
MainTrainRun == pc = "train_run" /\ StartRun("train", "train_running")

\* the algorithm visits a document: accumulator.update(features, y, mult)
EngineUpdate ==
    /\ pc \in Running /\ stage = "visit" /\ iter < opt.niters
    /\ \E f \in FeatureSet, y \in YValues, m \in MultValues :
          IF IsNN THEN DoUpdate(f, y, m)
          ELSE /\ nupdates < MaxUpdates
               /\ Record("update") /\ nupdates' = nupdates + 1
               /\ last_features' = f /\ last_y' = y /\ last_mult' = m
               /\ UNCHANGED <<nnVars, accVars, memoVars>>
    /\ UNCHANGED <<mainVars, wrkVars>>

\* end of an iteration, training phase: the accumulator is applied
EngineApply ==
    /\ pc \in Running /\ stage = "visit" /\ iter < opt.niters
    /\ ApplyAllowed
    /\ IF IsNN THEN DoUpdateParent
       ELSE /\ Record("update_parent")
            /\ UNCHANGED <<nnVars, accVars, last_features, last_y, last_mult,
                           nupdates, memoVars>>
    /\ stage' = "applied"
    /\ UNCHANGED <<pc, opt, nshards, lr_obj, model, eval, algorithm, phase,
                   exit_status, data_error, iter, runs, wrkVars>>

\* ... and reset
EngineReset ==
    /\ pc \in Running /\ stage = "applied"
    /\ IF IsNN THEN DoReset
       ELSE /\ Record("reset") /\ nupdates' = 0
            /\ UNCHANGED <<nnVars, accVars, last_features, last_y, last_mult,
                           memoVars>>
    /\ stage' = "visit" /\ iter' = iter + 1
    /\ UNCHANGED <<pc, opt, nshards, lr_obj, model, eval, algorithm, phase,
                   exit_status, data_error, runs, wrkVars>>

\* end of an iteration, any other phase: the accumulator is left as it is
EngineSkip ==
    /\ pc \in Running /\ stage = "visit" /\ iter < opt.niters
    /\ ~ApplyAllowed
    /\ iter' = iter + 1
    /\ UNCHANGED <<pc, opt, nshards, lr_obj, model, eval, algorithm, phase,
                   exit_status, data_error, stage, runs>>
    /\ Quiet

\* engine.run returns after niters iterations (then metrics_report)
EngineReturn ==
    /\ pc \in Running /\ stage = "visit" /\ iter = opt.niters
    /\ pc' = CASE pc = "train_running" -> "eval_read"
               [] pc = "eval_running" -> "test_read"
               [] pc = "test_running" -> "return"
    /\ stage' = "idle"
    /\ runs' = [runs EXCEPT ![Len(runs)].done = TRUE]
    /\ UNCHANGED <<opt, nshards, lr_obj, model, eval, algorithm, phase,
                   exit_status, data_error, iter>>
    /\ Quiet

\* lines 167-172
MainEvalRead ==
    /\ pc = "eval_read"
    /\ IF opt.eval_data # ""
       THEN LET n == read_data(opt.eval_data, opt.reader)
            IN  /\ nshards' = [nshards EXCEPT !.eval = n]
                /\ IF n = 0 THEN DataFatal("eval", "eval_set_phase")
                   ELSE /\ pc' = "eval_set_phase"
                        /\ UNCHANGED <<exit_status, data_error>>
       ELSE /\ pc' = "test_read"
            /\ UNCHANGED <<nshards, exit_status, data_error>>
    /\ UNCHANGED <<opt, lr_obj, model, eval, algorithm, phase, stage, iter, runs>>
    /\ Quiet

\* line 173
MainEvalSetPhase ==
    /\ pc = "eval_set_phase"
    /\ phase' = MainEvalPhase
    /\ pc' = "eval_run"
    /\ UNCHANGED <<opt, nshards, lr_obj, model, eval, algorithm, exit_status,
                   data_error, stage, iter, runs>>
    /\ Quiet

\* lines 174-177
MainEvalRun == pc = "eval_run" /\ StartRun("eval", "eval_running")

\* lines 182-187
MainTestRead ==
    /\ pc = "test_read"
    /\ IF opt.test_data # ""
       THEN LET n == read_data(opt.test_data, opt.reader)
            IN  /\ nshards' = [nshards EXCEPT !.test = n]
                /\ IF n = 0 THEN DataFatal("test", "test_set_phase")
                   ELSE /\ pc' = "test_set_phase"
                        /\ UNCHANGED <<exit_status, data_error>>
       ELSE /\ pc' = "return"
            /\ UNCHANGED <<nshards, exit_status, data_error>>
    /\ UNCHANGED <<opt, lr_obj, model, eval, algorithm, phase, stage, iter, runs>>
    /\ Quiet

\* line 188
MainTestSetPhase ==
    /\ pc = "test_set_phase"
    /\ phase' = MainTestPhase
    /\ pc' = "test_run"
    /\ UNCHANGED <<opt, nshards, lr_obj, model, eval, algorithm, exit_status,
                   data_error, stage, iter, runs>>
    /\ Quiet

\* lines 189-192
MainTestRun == pc = "test_run" /\ StartRun("test", "test_running")

\* line 196
MainReturn ==
    /\ pc = "return"
    /\ pc' = "done" /\ exit_status' = 0
    /\ UNCHANGED <<opt, nshards, lr_obj, model, eval, algorithm, phase,
                   data_error, stage, iter, runs>>
    /\ Quiet

MainNext ==
    \/ MainReadTrain \/ MainGetModel \/ MainGetEval \/ MainGetAlgorithm
    \/ MainTrainRun \/ EngineUpdate \/ EngineApply \/ EngineReset
    \/ EngineSkip \/ EngineReturn
    \/ MainEvalRead \/ MainEvalSetPhase \/ MainEvalRun
    \/ MainTestRead \/ MainTestSetPhase \/ MainTestRun \/ MainReturn

SpecMain == MainInit /\ [][MainNext]_vars

(***************************************************************************)
(* Properties of the two objects (checked under SpecNN).                   *)
(***************************************************************************)
\* the hidden-layer activations of the features for the weights p_w1
Hidden(features, p_w1, p_wy) == HiddenOutputs(features, Len(p_wy), p_w1)

\* the gradient-descent step for one example (features, y, m):
\* wy[h] -= lr*m*y(1-y)*hidden[h] and
\* w1[x][h] -= lr*m*y(1-y)*wy[h]*hidden[h](1-hidden[h])*features[x]
DescentStep(features, y, m, p_w1, p_wy, rate) ==
    LET hid    == Hidden(features, p_w1, p_wy)
        deltay == Mul(y, SCALE - y)
    IN  [w1 |-> [x \in 1..Len(p_w1) |->
                    [h \in 1..Len(p_w1[x]) |->
                        p_w1[x][h]
                        - Term1(rate, m, deltay, p_wy, hid, features, x, h)]],
         wy |-> [h \in 1..Len(p_wy) |->
                    p_wy[h] - TermY(rate, m, deltay, hid, h)]]

\* C1: one update(features, y, m) on a zeroed accumulator followed by
\* update_parent() decreases wy[h] by lr*m*y(1-y)*hidden[h] and w1[x][h] by
\* lr*m*y(1-y)*wy[h]*hidden[h](1-hidden[h])*features[x].
C1_GradientDescentStep ==
    [][(LastOp = "update" /\ nupdates = 1 /\ ops'[3] = "update_parent")
        => LET step == DescentStep(last_features, last_y, last_mult,
                                   w1, wy, learning_rate)
           IN  w1' = step.w1 /\ wy' = step.wy]_vars

\* C2: when update() computes its gradient terms, the accumulator's outputs
\* vector holds sigma(sum_x features[x]*w1[x][h]) for the parent's current
\* weights and this call's features.
C2_ForwardPassFilled ==
    LastOp = "update" => g_outputs = Hidden(last_features, w1, wy)

\* C8: w1, wy and the model's outputs vector change only inside
\* update_parent(), and two score() calls with the same features and no
\* update_parent() between them return the same value.
C8_OnlyApplyMutates ==
    /\ [][ops'[3] # "update_parent"
            => (w1' = w1 /\ wy' = wy /\ outputs' = outputs)]_vars
    /\ [](score_same # "differs")

\* a score() repeated with the same features after an update() in between
C8_Witness ==
    /\ ops = <<"score", "update", "score">>
    /\ score_same = "same"

Alone(t) ==
    update(NeuralNetworkGradient(w1, wy, outputs), wargs[t].features,
           wargs[t].y, wargs[t].mult, w1, wy, learning_rate)

RECURSIVE SumOver(_, _)
SumOver(S, f) ==
    IF S = {} THEN 0
    ELSE LET t == CHOOSE u \in S : TRUE IN f[t] + SumOver(S \ {t}, f)

AllDone == \A t \in Workers : wpc[t] = "done"

\* every worker has left the loop over the output-layer gradients (lines 95-98)
AllPastOutputLayer == \A t \in Workers : wpc[t] \notin {"call", "y_load", "y_store"}

AsksForNN(name) == Len(name) >= 2 /\ name[1] = "n" /\ name[2] = "n"

\* what follows the separator of "nn:<H>"
WidthText(name) == SubSeq(name, 4, Len(name))

\* the configuration errors: an unrecognised model name, a neural network
\* without a width or with a width that parses to a value <= 0, an
\* unrecognised metric, an unrecognised algorithm
BadNNWidth == AsksForNN(opt.mlmodel) /\ atoi(WidthText(opt.mlmodel)) <= 0
BadModel == \/ opt.mlmodel # <<"l", "i", "n", "r", "e", "g">> /\ ~AsksForNN(opt.mlmodel)
            \/ BadNNWidth
BadMetric == opt.error # "ndcg"
BadAlgorithm == opt.algorithm \notin {"ranknet_old", "ranknet", "lambdarank"}
ConfigurationError == BadModel \/ BadMetric \/ BadAlgorithm

\* C5: under a configuration error main never returns 0 and never invokes
\* engine.run, where it ends it ends with a nonzero status; a neural-network
\* request with a width <= 0 never yields a model.
C5_ConfigErrorsFatal ==
    /\ ConfigurationError =>
          /\ runs = <<>>
          /\ pc \in {"read_train", "get_model", "get_eval", "get_algorithm",
                     "exited", "halted"}
          /\ (pc \in {"exited", "halted"} => exit_status > 0)
    /\ BadNNWidth => model.kind \in {"unset", "NULL"}

\* main has exited on a neural network of width 0
C5_Witness ==
    /\ opt.mlmodel = <<"n", "n", ":", "0">>
    /\ pc = "exited" /\ exit_status > 0 /\ model = NULL

\* the runs started on the dataset named which
RunsOn(which) == {k \in 1..Len(runs) : runs[k].data = which}

\* C6: when a dataset error is reported the run is halted, no pass has been
\* started on that dataset, and no training pass has been executed yet.
C6_DataErrorBeforeTraining ==
    data_error # "none" =>
        /\ pc = "halted"
        /\ RunsOn(data_error) = {}
        /\ RunsOn("train") = {}

\* C7: the learning rate built from the learning_rate option is the one the
\* selected model owns and update() multiplies by, for linreg and for nn:<H>.
C7_LearningRateReachesModel ==
    model.kind \in {"LinearRegression", "NeuralNetwork"} =>
        /\ model.lr = lr_obj.rate
        /\ lr_obj.rate = opt.learning_rate
        /\ model.kind = "NeuralNetwork" => learning_rate = opt.learning_rate

\* the passes that follow a set_phase call of main
LaterPass == pc \in {"eval_run", "eval_running", "test_run", "test_running"}

\* C3: once main has called set_phase(VALIDATION) or set_phase(TESTING), no
\* step of the pass executes update_parent and w1, wy stay as they are.
C3_ValidationLeavesModel ==
    [][LaterPass => /\ w1' = w1 /\ wy' = wy
                    /\ (ops' # ops => ops'[3] # "update_parent")]_vars

\* a validation pass on a neural network has populated the accumulator and
\* ended an iteration
C3_Witness ==
    /\ pc = "eval_running" /\ IsNN /\ iter >= 1
    /\ ops[3] = "update" /\ nupdates >= 1

PhaseRank(p) == CASE p = "none" -> 0 [] p = "TRAINING" -> 1
                  [] p = "VALIDATION" -> 2 [] p = "TESTING" -> 3

Finished(which) == \A k \in RunsOn(which) : runs[k].done

\* C10: the phase is TRAINING during the first pass, becomes VALIDATION only
\* after the training pass and only if eval_data is set, TESTING only after the
\* validation pass (if any) and only if test_data is set, never changes
\* during engine.run, never goes back, and every pass uses the one algorithm
\* object and its model.
C10_PhaseForwardBetweenPasses ==
    /\ [](pc \in {"train_run", "train_running"} => phase = "TRAINING")
    /\ [](phase = "VALIDATION" =>
            /\ opt.eval_data # "" /\ RunsOn("train") # {} /\ Finished("train"))
    /\ [](phase = "TESTING" =>
            /\ opt.test_data # "" /\ RunsOn("train") # {} /\ Finished("train")
            /\ Finished("eval")
            /\ (opt.eval_data # "" => RunsOn("eval") # {}))
    /\ [][phase' # phase =>
            /\ pc \notin Running /\ stage = "idle"
            /\ PhaseRank(phase') > PhaseRank(phase)]_vars
    /\ [](\A k \in 1..Len(runs) :
            runs[k].algorithm = algorithm /\ algorithm.model = model)

\* main has returned after a training, a validation and a test pass
C10_Witness ==
    /\ pc = "done" /\ phase = "TESTING"
    /\ Len(runs) = 3 /\ Finished("test")

====
